---------------------------- MODULE Spec2Model ----------------------------
(***************************************************************************)
(* Model of the metrics aggregation backend (POST /analyze-obras):         *)
(* value coercion, month normalisation, row filter, block summarizer,      *)
(* month series, deltas, YTD, request validation and the narrative call.   *)
(*                                                                         *)
(* JavaScript numbers are modelled as exact rationals n/d (d > 0, lowest   *)
(* terms) extended with the IEEE-754 specials NaN, +Infinity, -Infinity.   *)
(* Rounding of finite results and the sign of zero are not modelled.       *)
(* JavaScript strings are sequences of one-character strings.              *)
(***************************************************************************)
EXTENDS Integers, Sequences, FiniteSets, TLC

(***************************************************************************)
(* Bounds of the model.                                                    *)
(***************************************************************************)
\* longest rows array of an /analyze-obras request body
MaxRows == 2
\* longest row sequence handed to summarizeBlock on its own
MaxSbRows == 3
\* most /analyze-obras requests in flight at once
MaxInFlight == 2

(***************************************************************************)
(* JavaScript numbers.                                                     *)
(***************************************************************************)
RECURSIVE GCD(_, _)
GCD(a, b) == IF b = 0 THEN a ELSE GCD(b, a % b)

Abs(x) == IF x < 0 THEN -x ELSE x

\* the finite number n/d in lowest terms with a positive denominator
Fin(n, d) ==
  LET g == GCD(Abs(n), Abs(d))
      s == IF d < 0 THEN -1 ELSE 1
  IN  [k |-> "fin", n |-> s * (n \div g), d |-> s * (d \div g)]

Int2Num(i) == [k |-> "fin", n |-> i, d |-> 1]
NaN == [k |-> "nan", n |-> 0, d |-> 1]
PInf == [k |-> "inf", n |-> 1, d |-> 1]
NInf == [k |-> "inf", n |-> -1, d |-> 1]
Zero == Int2Num(0)

IsNaN(x) == x.k = "nan"
IsInf(x) == x.k = "inf"
IsFinite(x) == x.k = "fin"
Sign(x) == IF x.n > 0 THEN 1 ELSE IF x.n < 0 THEN -1 ELSE 0
InfOfSign(s) == IF s > 0 THEN PInf ELSE NInf

\* a + b
NumAdd(a, b) ==
  IF IsNaN(a) \/ IsNaN(b) THEN NaN
  ELSE IF IsInf(a) /\ IsInf(b) THEN (IF a.n = b.n THEN a ELSE NaN)
  ELSE IF IsInf(a) THEN a
  ELSE IF IsInf(b) THEN b
  ELSE Fin(a.n * b.d + b.n * a.d, a.d * b.d)

NumNeg(a) == IF IsNaN(a) THEN NaN ELSE [a EXCEPT !.n = -a.n]

\* a - b
NumSub(a, b) == NumAdd(a, NumNeg(b))

\* a * b
NumMul(a, b) ==
  IF IsNaN(a) \/ IsNaN(b) THEN NaN
  ELSE IF IsInf(a) \/ IsInf(b)
       THEN (IF Sign(a) * Sign(b) = 0 THEN NaN ELSE InfOfSign(Sign(a) * Sign(b)))
  ELSE Fin(a.n * b.n, a.d * b.d)

\* a / b
NumDiv(a, b) ==
  IF IsNaN(a) \/ IsNaN(b) THEN NaN
  ELSE IF IsInf(a) /\ IsInf(b) THEN NaN
  ELSE IF IsInf(a) THEN InfOfSign(Sign(a) * (IF Sign(b) < 0 THEN -1 ELSE 1))
  ELSE IF IsInf(b) THEN Zero
  ELSE IF b.n = 0 THEN (IF a.n = 0 THEN NaN ELSE InfOfSign(Sign(a)))
  ELSE Fin(a.n * b.d, a.d * b.n)

\* ToBoolean of a number: 0 and NaN are falsy
Truthy(x) == ~IsNaN(x) /\ ~(IsFinite(x) /\ x.n = 0)

(***************************************************************************)
(* JavaScript strings and values.                                          *)
(***************************************************************************)
Whitespace == {" "}
Digits == <<"0", "1", "2", "3", "4", "5", "6", "7", "8", "9">>
Lower == <<"a", "b", "c", "d", "e", "f", "g", "h", "i", "j", "k", "l", "m",
           "n", "o", "p", "q", "r", "s", "t", "u", "v", "w", "x", "y", "z">>
Upper == <<"A", "B", "C", "D", "E", "F", "G", "H", "I", "J", "K", "L", "M",
           "N", "O", "P", "Q", "R", "S", "T", "U", "V", "W", "X", "Y", "Z">>

RECURSIVE TrimStart(_)
TrimStart(s) ==
  IF s # <<>> /\ Head(s) \in Whitespace THEN TrimStart(Tail(s)) ELSE s

RECURSIVE TrimEnd(_)
TrimEnd(s) ==
  IF s # <<>> /\ s[Len(s)] \in Whitespace
  THEN TrimEnd(SubSeq(s, 1, Len(s) - 1)) ELSE s

\* String.prototype.trim
Trim(s) == TrimEnd(TrimStart(s))

\* String.prototype.slice(0, n)
Slice0(s, n) == SubSeq(s, 1, IF Len(s) < n THEN Len(s) ELSE n)

UpperChar(c) ==
  IF \E i \in 1..Len(Lower) : Lower[i] = c
  THEN Upper[CHOOSE i \in 1..Len(Lower) : Lower[i] = c]
  ELSE c

\* String.prototype.toUpperCase
ToUpperCase(s) == [i \in 1..Len(s) |-> UpperChar(s[i])]

DigitVal(c) == (CHOOSE i \in 1..Len(Digits) : Digits[i] = c) - 1
IsDigit(c) == \E i \in 1..Len(Digits) : Digits[i] = c

RECURSIVE DecimalValue(_)
DecimalValue(s) ==
  IF s = <<>> THEN 0
  ELSE 10 * DecimalValue(SubSeq(s, 1, Len(s) - 1)) + DigitVal(s[Len(s)])

\* ToNumber of a string: blank is 0, a run of digits its value, else NaN
StringToNumber(s) ==
  LET t == Trim(s)
  IN  IF t = <<>> THEN Zero
      ELSE IF \A i \in 1..Len(t) : IsDigit(t[i]) THEN Int2Num(DecimalValue(t))
      ELSE NaN

\* a JavaScript value: undefined, null, a number or a string
Undefined == [t |-> "undefined", num |-> Zero, str |-> <<>>]
Null == [t |-> "null", num |-> Zero, str |-> <<>>]
JNum(x) == [t |-> "number", num |-> x, str |-> <<>>]
JInt(i) == JNum(Int2Num(i))
JStr(s) == [t |-> "string", num |-> Zero, str |-> s]

\* v ?? 0
CoalesceZero(v) == IF v.t \in {"undefined", "null"} THEN JInt(0) ELSE v

\* Number(v)
ToNumber(v) ==
  CASE v.t = "number" -> v.num
    [] v.t = "string" -> StringToNumber(v.str)
    [] v.t = "null" -> Zero
    [] OTHER -> NaN

\* faulty variant of money: no "|| 0" fallback
moneyNoFallback(x) == x

\* const money = (v) => Number(v) || 0, applied to a number
money(x) == IF Truthy(x) THEN x ELSE Zero

(***************************************************************************)
(* summarizeBlock(rows, metaKey, realKey, isPercent)                       *)
(***************************************************************************)
\* faulty variant of the forEach callback: percent mode counts a row in n
\* only when its target value is not NaN
SummarizeStepCountsNumeric(acc, r, metaKey, realKey, isPercent) ==
  LET m == ToNumber(CoalesceZero(r[metaKey]))
      v == ToNumber(CoalesceZero(r[realKey]))
  IN  IF isPercent
      THEN [meta |-> IF ~IsNaN(m) THEN NumAdd(acc.meta, m) ELSE acc.meta,
            real |-> IF ~IsNaN(v) THEN NumAdd(acc.real, v) ELSE acc.real,
            n |-> IF ~IsNaN(m) THEN acc.n + 1 ELSE acc.n]
      ELSE [meta |-> NumAdd(acc.meta, money(m)),
            real |-> NumAdd(acc.real, money(v)),
            n |-> acc.n]

\* one pass of the forEach callback over the accumulator [meta, real, n]
SummarizeStep(acc, r, metaKey, realKey, isPercent) ==
  LET m == ToNumber(CoalesceZero(r[metaKey]))
      v == ToNumber(CoalesceZero(r[realKey]))
  IN  IF isPercent
      THEN [meta |-> IF ~IsNaN(m) THEN NumAdd(acc.meta, m) ELSE acc.meta,
            real |-> IF ~IsNaN(v) THEN NumAdd(acc.real, v) ELSE acc.real,
            n |-> acc.n + 1]
      ELSE [meta |-> NumAdd(acc.meta, money(m)),
            real |-> NumAdd(acc.real, money(v)),
            n |-> acc.n]

RECURSIVE SummarizeLoop(_, _, _, _, _)
SummarizeLoop(acc, rows, metaKey, realKey, isPercent) ==
  IF rows = <<>> THEN acc
  ELSE SummarizeLoop(SummarizeStep(acc, Head(rows), metaKey, realKey, isPercent),
                     Tail(rows), metaKey, realKey, isPercent)

\* perc = meta ? (real / meta) * 100 : 0
PercOf(meta, real) ==
  IF Truthy(meta) THEN NumMul(NumDiv(real, meta), Int2Num(100)) ELSE Zero

summarizeBlock(rows, metaKey, realKey, isPercent) ==
  LET acc == SummarizeLoop([meta |-> Zero, real |-> Zero, n |-> 0],
                           rows, metaKey, realKey, isPercent)
      meta == IF isPercent
              THEN (IF acc.n # 0 THEN NumDiv(acc.meta, Int2Num(acc.n)) ELSE Zero)
              ELSE acc.meta
      real == IF isPercent
              THEN (IF acc.n # 0 THEN NumDiv(acc.real, Int2Num(acc.n)) ELSE Zero)
              ELSE acc.real
  IN  [meta |-> meta, real |-> real, perc |-> PercOf(meta, real)]

ZeroBlock == [meta |-> Zero, real |-> Zero, perc |-> Zero]


(***************************************************************************)
(* monthDelta and normalizeMes                                             *)
(***************************************************************************)
EmptyMap == [k \in {} |-> Zero]

\* faulty variant of monthDelta: previous minus current
monthDeltaSwapped(curr, prev) ==
  IF curr = Null \/ prev = Null THEN EmptyMap
  ELSE [k \in {c \in DOMAIN curr : c \in DOMAIN prev} |-> NumSub(prev[k], curr[k])]

\* monthDelta(curr, prev); a null argument is the value Null
monthDelta(curr, prev) ==
  IF curr = Null \/ prev = Null THEN EmptyMap
  ELSE [k \in {c \in DOMAIN curr : c \in DOMAIN prev} |-> NumSub(curr[k], prev[k])]

RECURSIVE NatToString(_)
NatToString(i) ==
  IF i < 10 THEN <<Digits[i + 1]>>
  ELSE NatToString(i \div 10) \o <<Digits[(i % 10) + 1]>>

\* String(m || ""), for a string, undefined, null or a natural number
StringOrEmpty(m) ==
  CASE m.t = "string" -> m.str
    [] m.t = "number" /\ Truthy(m.num) -> NatToString(m.num.n)
    [] OTHER -> <<>>

normalizeMes(m) == ToUpperCase(Slice0(Trim(StringOrEmpty(m)), 3))

MONTHS_ORDER ==
  << <<"J", "A", "N">>, <<"F", "E", "V">>, <<"M", "A", "R">>, <<"A", "B", "R">>,
     <<"M", "A", "I">>, <<"J", "U", "N">>, <<"J", "U", "L">>, <<"A", "G", "O">>,
     <<"S", "E", "T">>, <<"O", "U", "T">>, <<"N", "O", "V">>, <<"D", "E", "Z">> >>

(***************************************************************************)
(* RowSchema and AnalyzeObrasSchema (zod): safeParse collects one issue    *)
(* for every field that fails, in schema order, and never stops at the     *)
(* first; flatten() groups the issue messages by the first path element.   *)
(***************************************************************************)
\* the z.number().optional() keys of RowSchema, in schema order
RowNumberKeys ==
  <<"prazo_pedido_meta", "prazo_pedido_real", "prazo_entrega_meta",
    "prazo_entrega_real", "pontualidade_meta", "pontualidade_real",
    "negociacao_meta", "negociacao_real", "prazo_pedido_perc",
    "prazo_entrega_perc", "pontualidade_perc", "negociacao_perc">>

Issue(top, idx, field, code) ==
  [top |-> top, idx |-> idx, field |-> field, code |-> code]

\* z.number(): a number that is not NaN
IsZodNumber(v) == v.t = "number" /\ ~IsNaN(v.num)

\* z.string().min(1)
StringMin1Code(v) ==
  IF v.t # "string" THEN "invalid_type"
  ELSE IF Len(v.str) < 1 THEN "too_small" ELSE "ok"

\* z.number().int().optional()
OptionalIntCode(v) ==
  IF v.t = "undefined" THEN "ok"
  ELSE IF ~IsZodNumber(v) THEN "invalid_type"
  ELSE IF ~(IsFinite(v.num) /\ v.num.d = 1) THEN "invalid_type" ELSE "ok"

\* z.number().optional()
OptionalNumberCode(v) ==
  IF v.t = "undefined" \/ IsZodNumber(v) THEN "ok" ELSE "invalid_type"

\* z.string().optional()
OptionalStringCode(v) ==
  IF v.t \in {"undefined", "string"} THEN "ok" ELSE "invalid_type"

\* z.number().min(0.1).max(1).default(0.75)
AlvoPctCode(v) ==
  IF v.t = "undefined" THEN "ok"
  ELSE IF ~IsZodNumber(v) THEN "invalid_type"
  ELSE IF IsInf(v.num) THEN (IF v.num.n < 0 THEN "too_small" ELSE "too_big")
  ELSE IF 10 * v.num.n < v.num.d THEN "too_small"
  ELSE IF v.num.n > v.num.d THEN "too_big" ELSE "ok"

IssueIf(top, idx, field, code) ==
  IF code = "ok" THEN <<>> ELSE <<Issue(top, idx, field, code)>>

RECURSIVE NumberKeyIssues(_, _, _)
NumberKeyIssues(r, idx, keys) ==
  IF keys = <<>> THEN <<>>
  ELSE IssueIf("rows", idx, Head(keys), OptionalNumberCode(r[Head(keys)]))
       \o NumberKeyIssues(r, idx, Tail(keys))

\* RowSchema applied to the row at index idx (0-based) of rows
RowIssues(r, idx) ==
  IssueIf("rows", idx, "obra", StringMin1Code(r.obra))
  \o IssueIf("rows", idx, "ano", OptionalIntCode(r.ano))
  \o IssueIf("rows", idx, "mes", StringMin1Code(r.mes))
  \o NumberKeyIssues(r, idx, RowNumberKeys)

RECURSIVE RowsIssues(_, _)
RowsIssues(items, idx) ==
  IF items = <<>> THEN <<>>
  ELSE RowIssues(Head(items), idx) \o RowsIssues(Tail(items), idx + 1)

\* z.array(RowSchema)
ArrayIssues(rows) ==
  IF rows.t # "array" THEN <<Issue("rows", 0, "", "invalid_type")>>
  ELSE RowsIssues(rows.items, 0)

\* faulty variant of safeParse: stops at the first issue of the rows array
SafeParseAbortEarly(body) ==
  LET rowIssues == ArrayIssues(body.rows)
      issues ==
        IF body.t # "object" THEN <<Issue("", 0, "", "invalid_type")>>
        ELSE IssueIf("ano", 0, "", OptionalIntCode(body.ano))
             \o IssueIf("obra", 0, "", OptionalStringCode(body.obra))
             \o IssueIf("alvoPct", 0, "", AlvoPctCode(body.alvoPct))
             \o (IF rowIssues = <<>> THEN <<>> ELSE <<Head(rowIssues)>>)
  IN  [success |-> issues = <<>>, issues |-> issues, data |-> body]

\* AnalyzeObrasSchema.safeParse(req.body)
SafeParse(body) ==
  LET issues ==
        IF body.t # "object" THEN <<Issue("", 0, "", "invalid_type")>>
        ELSE IssueIf("ano", 0, "", OptionalIntCode(body.ano))
             \o IssueIf("obra", 0, "", OptionalStringCode(body.obra))
             \o IssueIf("alvoPct", 0, "", AlvoPctCode(body.alvoPct))
             \o ArrayIssues(body.rows)
  IN  [success |-> issues = <<>>,
       issues |-> issues,
       data |-> IF issues # <<>> THEN body
                ELSE [body EXCEPT !.alvoPct =
                        IF @.t = "undefined" THEN JNum(Fin(3, 4)) ELSE @]]

RECURSIVE CodesOf(_, _)
CodesOf(issues, top) ==
  IF issues = <<>> THEN <<>>
  ELSE (IF Head(issues).top = top THEN <<Head(issues).code>> ELSE <<>>)
       \o CodesOf(Tail(issues), top)

\* parsed.error.flatten()
Flatten(issues) ==
  [formErrors |-> CodesOf(issues, ""),
   fieldErrors |->
     [top \in {issues[i].top : i \in 1..Len(issues)} \ {""} |-> CodesOf(issues, top)]]

(***************************************************************************)
(* The synchronous part of the /analyze-obras handler.                     *)
(***************************************************************************)
Todas == <<"T", "o", "d", "a", "s">>

\* r.ano ?? ano ?? new Date().getFullYear()
DefaultedAno(rowAno, ano, now) ==
  IF rowAno.t \notin {"undefined", "null"} THEN rowAno
  ELSE IF ano.t \notin {"undefined", "null"} THEN ano
  ELSE JInt(now)

\* rows.map((r) => ({ ...r, mes: normalizeMes(r.mes), ano: ... }))
NormRows(rows, ano, now) ==
  [i \in 1..Len(rows) |->
     [rows[i] EXCEPT !.mes = JStr(normalizeMes(rows[i].mes)),
                     !.ano = DefaultedAno(rows[i].ano, ano, now)]]

\* faulty variant of obraSel: "Todas" is taken for an entity label
ObraSelNoSentinel(obra) ==
  IF obra.t = "string" /\ obra.str # <<>> THEN obra ELSE Null

\* obra && obra !== "Todas" ? obra : null
ObraSel(obra) ==
  IF obra.t = "string" /\ obra.str # <<>> /\ obra.str # Todas THEN obra ELSE Null

\* norm.filter((r) => (obraSel ? r.obra === obraSel : true))
FilterByObra(norm, obraSel) ==
  LET Keep(r) == IF obraSel # Null THEN r.obra = obraSel ELSE TRUE
  IN  SelectSeq(norm, Keep)

\* !ano || r.ano === ano
YearMatches(r, ano) ==
  (ano.t # "number" \/ ~Truthy(ano.num)) \/ r.ano = ano

\* filtered.filter((r) => r.mes === m && (!ano || r.ano === ano))
MonthRows(filtered, m, ano) ==
  LET Keep(r) == r.mes = JStr(m) /\ YearMatches(r, ano)
  IN  SelectSeq(filtered, Keep)

\* the four blocks of a row set, each with its aggregation mode
Blocks(rs) ==
  [prazo_pedido |-> summarizeBlock(rs, "prazo_pedido_meta", "prazo_pedido_real", FALSE),
   prazo_entrega |-> summarizeBlock(rs, "prazo_entrega_meta", "prazo_entrega_real", FALSE),
   pontualidade |-> summarizeBlock(rs, "pontualidade_meta", "pontualidade_real", TRUE),
   negociacao |-> summarizeBlock(rs, "negociacao_meta", "negociacao_real", TRUE)]

Categories == {"prazo_pedido", "prazo_entrega", "pontualidade", "negociacao"}

\* faulty variant of months: a month without rows gets no record
MonthsWithRowsOnly(filtered, ano) ==
  LET IsUsed(m) == MonthRows(filtered, m, ano) # <<>>
      used == SelectSeq(MONTHS_ORDER, IsUsed)
  IN  [i \in 1..Len(used) |->
         LET b == Blocks(MonthRows(filtered, used[i], ano))
         IN  [mes |-> used[i],
              prazo_pedido |-> b.prazo_pedido, prazo_entrega |-> b.prazo_entrega,
              pontualidade |-> b.pontualidade, negociacao |-> b.negociacao]]

\* const months = MONTHS_ORDER.map((m) => ...)
Months(filtered, ano) ==
  [i \in 1..Len(MONTHS_ORDER) |->
     LET b == Blocks(MonthRows(filtered, MONTHS_ORDER[i], ano))
     IN  [mes |-> MONTHS_ORDER[i],
          prazo_pedido |-> b.prazo_pedido, prazo_entrega |-> b.prazo_entrega,
          pontualidade |-> b.pontualidade, negociacao |-> b.negociacao]]

\* const prev = idx > 0 ? months[idx - 1] : null (idx is 1-based here)
PrevMonth(months, idx) == IF idx > 1 THEN months[idx - 1] ELSE Null

\* const monthsWithDelta = months.map((row, idx) => ...)
MonthsWithDelta(months) ==
  [i \in 1..Len(months) |->
     LET row == months[i]
         prev == PrevMonth(months, i)
     IN  [mes |-> row.mes,
          prazo_pedido |-> row.prazo_pedido, prazo_entrega |-> row.prazo_entrega,
          pontualidade |-> row.pontualidade, negociacao |-> row.negociacao,
          delta |-> [c \in Categories |->
                       IF prev # Null THEN monthDelta(row[c], prev[c]) ELSE EmptyMap]]]

\* faulty variant of ytd: only the rows that fall in one of the twelve months
YtdOfBucketedRows(filtered) ==
  LET InSomeMonth(r) == \E i \in 1..Len(MONTHS_ORDER) : r.mes = JStr(MONTHS_ORDER[i])
  IN  Blocks(SelectSeq(filtered, InSomeMonth))

\* const ytd = {...}: the four blocks of the whole filtered set
Ytd(filtered) == Blocks(filtered)

\* everything the handler computes from parsed.data before the narrative call
Aggregate(data, now) ==
  LET norm == NormRows(data.rows.items, data.ano, now)
      obraSel == ObraSel(data.obra)
      filtered == FilterByObra(norm, obraSel)
  IN  [obra |-> IF obraSel # Null THEN obraSel.str ELSE Todas,
       ano |-> data.ano,
       filtered |-> filtered,
       ytd |-> Ytd(filtered),
       meses |-> MonthsWithDelta(Months(filtered, data.ano))]

(***************************************************************************)
(* The narrative call: the output text is a sequence of lexical chunks.    *)
(***************************************************************************)
\* the chunks matched by the opening-fence pattern (three backquotes, json, any case)
JsonFenceOpen == {"<fence>json", "<fence>JSON"}
\* three backquotes
JsonFenceClose == "<fence>"
\* the chunks that are, on their own, valid JSON texts
ValidJsonTexts == {"{\"resumo\":\"ok\",\"tarefas\":[]}", "[]"}

\* String(resp.output_text || "").trim() with the opening and closing fence removed
StripFences(text) ==
  LET a == IF text # <<>> /\ Head(text) \in JsonFenceOpen THEN Tail(text) ELSE text
  IN  IF a # <<>> /\ a[Len(a)] = JsonFenceClose THEN SubSeq(a, 1, Len(a) - 1) ELSE a

\* JSON.parse(raw): [threw, value]
JsonParse(raw) ==
  IF Len(raw) = 1 /\ raw[1] \in ValidJsonTexts
  THEN [threw |-> FALSE, value |-> raw[1]]
  ELSE [threw |-> TRUE, value |-> ""]

EmptyObject == "{}"

\* let analise = {}; try { ...; analise = JSON.parse(raw) } catch { warn }
Analise(outcome) ==
  IF outcome.threw THEN EmptyObject
  ELSE LET p == JsonParse(StripFences(outcome.text))
       IN  IF p.threw THEN EmptyObject ELSE p.value

(***************************************************************************)
(* Inputs: request bodies, narrative outcomes, summarizeBlock arguments.   *)
(***************************************************************************)
RowKeys == {"obra", "ano", "mes"} \cup {RowNumberKeys[i] : i \in 1..Len(RowNumberKeys)}

\* a row object: the fields of base, every other key of RowSchema absent
RowOf(base) == [k \in RowKeys |-> IF k \in DOMAIN base THEN base[k] ELSE Undefined]

ObraA == JStr(<<"A">>)
ObraB == JStr(<<"B">>)

MetricsFull ==
  [prazo_pedido_meta |-> JInt(10), prazo_pedido_real |-> JInt(8),
   prazo_entrega_meta |-> JInt(20), prazo_entrega_real |-> JInt(30),
   pontualidade_meta |-> JInt(90), pontualidade_real |-> JInt(45),
   negociacao_meta |-> JInt(50), negociacao_real |-> JInt(25)]

MetricsPartial ==
  [prazo_pedido_meta |-> JInt(100), prazo_pedido_real |-> JInt(80),
   pontualidade_real |-> JInt(60),
   negociacao_meta |-> JInt(40), negociacao_real |-> JInt(50),
   negociacao_perc |-> JInt(125)]

\* rows that satisfy RowSchema
ValidRows ==
  { RowOf([obra |-> ObraA, mes |-> JStr(<<"j", "a", "n">>)] @@ MetricsFull),
    RowOf([obra |-> ObraA, ano |-> JInt(2024),
           mes |-> JStr(<<" ", "F", "e", "v", " ">>)] @@ MetricsPartial),
    RowOf([obra |-> ObraB, ano |-> JInt(2025),
           mes |-> JStr(<<"j", "a", "n", "e", "i", "r", "o">>)] @@ MetricsFull),
    RowOf([obra |-> ObraA, ano |-> JInt(2025),
           mes |-> JStr(<<"f", "e", "v">>)] @@ MetricsFull),
    RowOf([obra |-> ObraB, ano |-> JInt(2024),
           mes |-> JStr(<<"x", "y", "z">>)] @@ MetricsPartial),
    RowOf([obra |-> ObraA, ano |-> JInt(2024),
           mes |-> JStr(<<" ", " ">>)] @@ MetricsFull) }

\* rows that violate RowSchema in two and in five fields
InvalidRows ==
  { RowOf([obra |-> JStr(<<>>)] @@ MetricsFull),
    RowOf([ano |-> JNum(Fin(4049, 2)), mes |-> JStr(<<>>),
           prazo_pedido_meta |-> JStr(<<"1", "2">>), negociacao_perc |-> Null]) }

SampleRows == ValidRows \cup InvalidRows

\* arrays of at most MaxRows rows drawn from a set of rows
SeqsOver(rowSet) == UNION {[1..n -> rowSet] : n \in 0..MaxRows}

Array(items) == [t |-> "array", items |-> items]
NotAnArray == [t |-> "undefined", items |-> <<>>]

AnoInputs == {Undefined, JInt(2024), JNum(Fin(4049, 2))}
ObraInputs == {Undefined, JStr(Todas), ObraA, JStr(<<>>), JInt(7)}
AlvoPctInputs == {Undefined, JNum(Fin(1, 20)), JInt(2)}

ObjectBody(a, o, p, rs) ==
  [t |-> "object", ano |-> a, obra |-> o, alvoPct |-> p, rows |-> rs]

\* request bodies: acceptable top-level fields with any rows; any top-level
\* fields with invalid rows or no rows array; and a body that is no object
Bodies ==
  { ObjectBody(a, o, Undefined, Array(items)) :
      a \in {Undefined, JInt(2024)},
      o \in {Undefined, JStr(Todas), ObraA, JStr(<<>>)},
      items \in SeqsOver(SampleRows) }
  \cup { ObjectBody(a, o, p, rs) :
           a \in AnoInputs, o \in ObraInputs, p \in AlvoPctInputs,
           rs \in {Array(items) : items \in SeqsOver(InvalidRows)} \cup {NotAnArray} }
  \cup { [t |-> "array", ano |-> Undefined, obra |-> Undefined,
          alvoPct |-> Undefined, rows |-> NotAnArray] }

\* values of new Date().getFullYear()
ClockYears == {2025, 2026}

JsonText == "{\"resumo\":\"ok\",\"tarefas\":[]}"

\* what openai.responses.create can do: throw, or resolve with an output text
LlmOutcomes ==
  { [threw |-> TRUE, text |-> <<>>] }
  \cup { [threw |-> FALSE, text |-> t] :
           t \in { <<JsonText>>, <<"<fence>json", JsonText, "<fence>">>,
                   <<"Segue a analise:", JsonText>>, <<>> } }

SbRow(m, v) == [meta |-> m, real |-> v]

\* rows for summarizeBlock alone: numbers, NaN, infinities, absent, null, strings
SbRows ==
  { SbRow(JInt(10), JInt(5)), SbRow(JNum(NaN), JInt(5)), SbRow(JInt(20), JInt(5)),
    SbRow(Undefined, Undefined), SbRow(JStr(<<"a", "b", "c">>), JInt(8)),
    SbRow(JInt(100), JInt(80)), SbRow(JInt(50), JInt(60)),
    SbRow(JInt(-10), JNum(NaN)), SbRow(Null, JStr(<<"1", "2">>)),
    SbRow(JNum(PInf), JNum(PInf)), SbRow(JNum(NInf), JInt(3)) }

SbRowSeqs == UNION {[1..n -> SbRows] : n \in 0..MaxSbRows}

(***************************************************************************)
(* State.                                                                  *)
(***************************************************************************)
VARIABLES
  pc,     \* per request: "idle", "awaiting" (suspended at the await), "done"
  req,    \* per request: req.body and the clock reading of the handler
  local,  \* per request: the handler's locals that live across the await
  llm,    \* per request: calls made to the narrative service, and its outcome
  resp,   \* per request: the response sent
  sb      \* a call of summarizeBlock on its own: arguments and result

vars == <<pc, req, local, llm, resp, sb>>

ReqNames == <<"r1", "r2", "r3", "r4">>
\* the handler invocations that can be live at once
Reqs == {ReqNames[i] : i \in 1..MaxInFlight}
\* the requests served by the sequential specification
SeqReqs == {"r1"}

NoReq == [body |-> Null, now |-> 0]
NoLocal == [set |-> FALSE]
NoLlm == [calls |-> 0, returned |-> FALSE, outcome |-> [threw |-> FALSE, text |-> <<>>]]
NoResp == [status |-> 0]
SbIdle == [phase |-> "idle", rows |-> <<>>, isPercent |-> FALSE, out |-> ZeroBlock]

HandlersIdle ==
  /\ pc = [id \in Reqs |-> "idle"]
  /\ req = [id \in Reqs |-> NoReq]
  /\ local = [id \in Reqs |-> NoLocal]
  /\ llm = [id \in Reqs |-> NoLlm]
  /\ resp = [id \in Reqs |-> NoResp]

Init == HandlersIdle /\ sb = SbIdle

(***************************************************************************)
(* POST /analyze-obras, up to the await of the narrative call: validation, *)
(* then either the 400 response or the whole aggregation and the call.     *)
(***************************************************************************)
Receive(id, body, now) ==
  /\ pc[id] = "idle"
  /\ req' = [req EXCEPT ![id] = [body |-> body, now |-> now]]
  /\ LET parsed == SafeParse(body)
     IN  IF ~parsed.success
         THEN /\ resp' = [resp EXCEPT ![id] =
                   [status |-> 400, ok |-> FALSE, error |-> Flatten(parsed.issues)]]
              /\ pc' = [pc EXCEPT ![id] = "done"]
              /\ UNCHANGED <<local, llm>>
         ELSE /\ local' = [local EXCEPT ![id] =
                   [set |-> TRUE] @@ Aggregate(parsed.data, now)]
              /\ llm' = [llm EXCEPT ![id].calls = @ + 1]
              /\ pc' = [pc EXCEPT ![id] = "awaiting"]
              /\ UNCHANGED resp
  /\ UNCHANGED sb

\* faulty variant of the resumption: no inner try/catch, a failed narrative
\* call reaches the outer catch and is answered 500
LlmReturnNoCatch(id, outcome) ==
  /\ pc[id] = "awaiting"
  /\ llm' = [llm EXCEPT ![id].returned = TRUE, ![id].outcome = outcome]
  /\ resp' = [resp EXCEPT ![id] =
       IF outcome.threw \/ JsonParse(StripFences(outcome.text)).threw
       THEN [status |-> 500, ok |-> FALSE, error |-> "Error"]
       ELSE [status |-> 200, ok |-> TRUE, obra |-> local[id].obra, ano |-> local[id].ano,
             ytd |-> local[id].ytd, meses |-> local[id].meses,
             analise |-> Analise(outcome)]]
  /\ pc' = [pc EXCEPT ![id] = "done"]
  /\ UNCHANGED <<req, local, sb>>

\* faulty variant of the resumption: ytd and meses are kept in variables of
\* module scope, so the resumed handler sends those of any handler whose
\* aggregation is still held
LlmReturnSharedLocals(id, outcome) ==
  /\ pc[id] = "awaiting"
  /\ llm' = [llm EXCEPT ![id].returned = TRUE, ![id].outcome = outcome]
  /\ \E j \in Reqs :
       /\ local[j].set
       /\ resp' = [resp EXCEPT ![id] =
            [status |-> 200, ok |-> TRUE, obra |-> local[id].obra, ano |-> local[id].ano,
             ytd |-> local[j].ytd, meses |-> local[j].meses,
             analise |-> Analise(outcome)]]
  /\ pc' = [pc EXCEPT ![id] = "done"]
  /\ UNCHANGED <<req, local, sb>>

(***************************************************************************)
(* The narrative call settles and the handler resumes: res.json(...).      *)
(***************************************************************************)
LlmReturn(id, outcome) ==
  /\ pc[id] = "awaiting"
  /\ llm' = [llm EXCEPT ![id].returned = TRUE, ![id].outcome = outcome]
  /\ resp' = [resp EXCEPT ![id] =
       [status |-> 200, ok |-> TRUE, obra |-> local[id].obra, ano |-> local[id].ano,
        ytd |-> local[id].ytd, meses |-> local[id].meses,
        analise |-> Analise(outcome)]]
  /\ pc' = [pc EXCEPT ![id] = "done"]
  /\ UNCHANGED <<req, local, sb>>

(***************************************************************************)
(* The response has been sent; the handler's closure is dropped.           *)
(***************************************************************************)
Close(id) ==
  /\ pc[id] = "done"
  /\ pc' = [pc EXCEPT ![id] = "idle"]
  /\ req' = [req EXCEPT ![id] = NoReq]
  /\ local' = [local EXCEPT ![id] = NoLocal]
  /\ llm' = [llm EXCEPT ![id] = NoLlm]
  /\ resp' = [resp EXCEPT ![id] = NoResp]
  /\ UNCHANGED sb

Next ==
  \E id \in SeqReqs :
    \/ pc[id] = "idle" /\ \E body \in Bodies, now \in ClockYears : Receive(id, body, now)
    \/ pc[id] = "awaiting" /\ \E outcome \in LlmOutcomes : LlmReturn(id, outcome)
    \/ Close(id)

\* requests to /analyze-obras served one at a time
Spec == Init /\ [][Next]_vars

(***************************************************************************)
(* Several requests to /analyze-obras in flight at once.  Node runs each   *)
(* handler without preemption up to its await, so the handlers interleave  *)
(* only there: between Receive of one request and its LlmReturn, any       *)
(* action of any other request can happen.                                 *)
(***************************************************************************)
ConcRowJan == RowOf([obra |-> ObraA, mes |-> JStr(<<"j", "a", "n">>)] @@ MetricsFull)
ConcRowFev ==
  RowOf([obra |-> ObraA, ano |-> JInt(2024),
         mes |-> JStr(<<" ", "F", "e", "v", " ">>)] @@ MetricsPartial)
ConcRowB ==
  RowOf([obra |-> ObraB, ano |-> JInt(2025), mes |-> JStr(<<"f", "e", "v">>)] @@ MetricsFull)

\* bodies of the concurrent requests: without filters, with both filters,
\* with the "Todas" label, and a body without a rows array
ConcBodies ==
  { ObjectBody(Undefined, Undefined, Undefined, Array(<<ConcRowJan>>)),
    ObjectBody(JInt(2024), ObraA, Undefined, Array(<<ConcRowFev, ConcRowB>>)),
    ObjectBody(Undefined, JStr(Todas), Undefined, Array(<<ConcRowB, ConcRowJan>>)),
    ObjectBody(Undefined, Undefined, Undefined, NotAnArray) }

\* the narrative call of a concurrent request throws or resolves with JSON
ConcOutcomes == {o \in LlmOutcomes : o.threw \/ o.text = <<JsonText>>}

NextConc ==
  \E id \in Reqs :
    \/ pc[id] = "idle" /\ \E body \in ConcBodies, now \in ClockYears : Receive(id, body, now)
    \/ pc[id] = "awaiting" /\ \E outcome \in ConcOutcomes : LlmReturn(id, outcome)
    \/ Close(id)

SpecConc == Init /\ [][NextConc]_vars

(***************************************************************************)
(* POST /analyze, as served by src/unnamed/part_000 and by the first       *)
(* server of src/server.js: parameter check, the analysis call, at most    *)
(* one repair call, one response.                                          *)
(***************************************************************************)
\* an object such as a parsed JSON object
PlainObject == [t |-> "object", num |-> Zero, str |-> <<>>]
\* an object whose own toString and valueOf are not callable, as parsed from
\* {"toString": 1, "valueOf": 1}: truthy, and its conversion to a string throws
NoPrimitiveObject == [t |-> "object", num |-> Zero, str |-> <<"toString", "valueOf">>]

\* ToBoolean of a value
TruthyValue(v) ==
  CASE v.t \in {"undefined", "null"} -> FALSE
    [] v.t = "number" -> Truthy(v.num)
    [] v.t = "string" -> v.str # <<>>
    [] OTHER -> TRUE

\* ToString(v) throws a TypeError
ToStringThrows(v) == v = NoPrimitiveObject

\* the servers that register POST /analyze with a repair call
Builds == {"part_000", "server.js"}

\* the fields tested by the handler's first if
Required(build) ==
  IF build = "part_000" THEN {"ano", "resumo"} ELSE {"ano", "mes", "metric", "resumo"}

\* if (!ano || ... || !resumo)
ParamsMissing(build, body) == \E f \in Required(build) : ~TruthyValue(body[f])

\* metric || "geral", as interpolated in the prompt
OrGeral(v) == IF TruthyValue(v) THEN v ELSE JStr(<<"g", "e", "r", "a", "l">>)
\* String(mes || "")
OrEmpty(v) == IF TruthyValue(v) THEN v ELSE JStr(<<>>)

\* building isTodos and the user prompt throws: some interpolated value has no
\* string conversion (JSON.stringify(resumo) does not convert resumo to a string)
PromptThrows(build, body) ==
  IF build = "part_000"
  THEN \/ ToStringThrows(OrEmpty(body.mes))
       \/ ToStringThrows(body.ano)
       \/ ToStringThrows(OrGeral(body.metric))
  ELSE \/ ToStringThrows(body.mes)
       \/ ToStringThrows(body.ano)
       \/ ToStringThrows(body.metric)

AnalyzeBody(a, m, k, r) == [t |-> "object", ano |-> a, mes |-> m, metric |-> k, resumo |-> r]

AnalyzeBodies ==
  { AnalyzeBody(a, m, k, r) :
      a \in {Undefined, JInt(0), JInt(2025), NoPrimitiveObject},
      m \in {Undefined, JStr(<<"J", "A", "N">>), JStr(<<"t", "o", "d", "o", "s">>),
             NoPrimitiveObject},
      k \in {Undefined, JStr(<<>>), JStr(<<"p", "r", "a", "z", "o">>)},
      r \in {Undefined, Null, PlainObject} }

\* what openai.responses.create can do for /analyze: throw, or resolve with
\* output_text (when the SDK sets it) and the text of the first output item
AnalyzeOutcome(threw, hasText, text, nested) ==
  [threw |-> threw, hasOutputText |-> hasText, text |-> text, nested |-> nested]

AnalyzeOutcomes ==
  { AnalyzeOutcome(TRUE, FALSE, <<>>, <<>>) }
  \cup { AnalyzeOutcome(FALSE, TRUE, t, t) :
           t \in { <<JsonText>>, <<"<fence>json", JsonText, "<fence>">>,
                   <<"Segue a analise:", JsonText>>, <<>> } }
  \cup { AnalyzeOutcome(FALSE, FALSE, <<>>, n) : n \in { <<JsonText>>, <<>> } }

\* part_000: String(resp.output_text || "");
\* server.js: String(resp.output_text ?? resp.output?.[0]?.content?.[0]?.text ?? "");
\* then .trim() and the fence removal
RawOf(build, outcome) ==
  StripFences(IF outcome.hasOutputText THEN outcome.text
              ELSE IF build = "part_000" THEN <<>> ELSE outcome.nested)

\* (fix.output_text || "") with .trim() and the fence removal
FixedOf(outcome) == StripFences(IF outcome.hasOutputText THEN outcome.text ELSE <<>>)

AnalysisCall == "analysis"
RepairCall == "repair"

AnalyzeNoLlm == [calls |-> 0, log |-> <<>>, outcomes |-> <<>>]
AnalyzeNoResp == [status |-> 0, sent |-> 0]

\* res.status(code).json(payload) or res.json(payload)
Send(r, status, payload) == [status |-> status, sent |-> r.sent + 1] @@ payload

\* openai.responses.create(...): one more call of the given kind and input
Call(l, kind, input) ==
  [l EXCEPT !.calls = @ + 1, !.log = Append(@, [kind |-> kind, input |-> input])]

MissingError == "Parametros faltando"
ErrorMessage == "String(err.message || err)"

InitAnalyze ==
  /\ pc = [id \in Reqs |-> "idle"]
  /\ req = [id \in Reqs |-> NoReq]
  /\ local = [id \in Reqs |-> NoLocal]
  /\ llm = [id \in Reqs |-> AnalyzeNoLlm]
  /\ resp = [id \in Reqs |-> AnalyzeNoResp]
  /\ sb = SbIdle

\* the handler up to its first await
AnalyzeReceive(id, build, body) ==
  /\ pc[id] = "idle"
  /\ req' = [req EXCEPT ![id] = [body |-> body, build |-> build]]
  /\ IF ParamsMissing(build, body)
     THEN /\ resp' = [resp EXCEPT ![id] =
               Send(@, 400, [ok |-> FALSE, error |-> MissingError])]
          /\ pc' = [pc EXCEPT ![id] = "done"]
          /\ UNCHANGED llm
     ELSE IF PromptThrows(build, body)
     THEN /\ resp' = [resp EXCEPT ![id] =
               Send(@, 500, [ok |-> FALSE, error |-> ErrorMessage])]
          /\ pc' = [pc EXCEPT ![id] = "done"]
          /\ UNCHANGED llm
     ELSE /\ llm' = [llm EXCEPT ![id] = Call(@, AnalysisCall, <<>>)]
          /\ pc' = [pc EXCEPT ![id] = "analysing"]
          /\ UNCHANGED resp
  /\ UNCHANGED <<local, sb>>

\* the analysis call settles: the outer catch, or the first JSON.parse and
\* either the response or the repair call
AnalyzeReturn(id, outcome) ==
  /\ pc[id] = "analysing"
  /\ LET raw == RawOf(req[id].build, outcome)
         parsed == JsonParse(raw)
         settled == [llm EXCEPT ![id].outcomes = Append(@, outcome)]
     IN  IF outcome.threw
         THEN /\ resp' = [resp EXCEPT ![id] =
                   Send(@, 500, [ok |-> FALSE, error |-> ErrorMessage])]
              /\ llm' = settled
              /\ pc' = [pc EXCEPT ![id] = "done"]
         ELSE IF ~parsed.threw
         THEN /\ resp' = [resp EXCEPT ![id] =
                   Send(@, 200, [ok |-> TRUE, data |-> parsed.value])]
              /\ llm' = settled
              /\ pc' = [pc EXCEPT ![id] = "done"]
         ELSE /\ llm' = [settled EXCEPT ![id] = Call(@, RepairCall, raw)]
              /\ pc' = [pc EXCEPT ![id] = "repairing"]
              /\ UNCHANGED resp
  /\ UNCHANGED <<req, local, sb>>

\* faulty variant of the repair: while the repaired text does not parse, the
\* handler asks for another repair
AnalyzeRepairReturnRetries(id, outcome) ==
  /\ pc[id] = "repairing"
  /\ LET parsed == JsonParse(FixedOf(outcome))
         settled == [llm EXCEPT ![id].outcomes = Append(@, outcome)]
     IN  IF outcome.threw
         THEN /\ resp' = [resp EXCEPT ![id] =
                   Send(@, 500, [ok |-> FALSE, error |-> ErrorMessage])]
              /\ llm' = settled
              /\ pc' = [pc EXCEPT ![id] = "done"]
         ELSE IF ~parsed.threw
         THEN /\ resp' = [resp EXCEPT ![id] =
                   Send(@, 200, [ok |-> TRUE, data |-> parsed.value])]
              /\ llm' = settled
              /\ pc' = [pc EXCEPT ![id] = "done"]
         ELSE /\ llm' = [settled EXCEPT ![id] = Call(@, RepairCall, FixedOf(outcome))]
              /\ pc' = [pc EXCEPT ![id] = "repairing"]
              /\ UNCHANGED resp
  /\ UNCHANGED <<req, local, sb>>

\* the repair call settles: the second JSON.parse, then the response or the
\* outer catch
AnalyzeRepairReturn(id, outcome) ==
  /\ pc[id] = "repairing"
  /\ LET parsed == JsonParse(FixedOf(outcome))
     IN  resp' = [resp EXCEPT ![id] =
           IF outcome.threw \/ parsed.threw
           THEN Send(@, 500, [ok |-> FALSE, error |-> ErrorMessage])
           ELSE Send(@, 200, [ok |-> TRUE, data |-> parsed.value])]
  /\ llm' = [llm EXCEPT ![id].outcomes = Append(@, outcome)]
  /\ pc' = [pc EXCEPT ![id] = "done"]
  /\ UNCHANGED <<req, local, sb>>

\* the handler has returned; its closure is dropped
AnalyzeClose(id) ==
  /\ pc[id] = "done"
  /\ pc' = [pc EXCEPT ![id] = "idle"]
  /\ req' = [req EXCEPT ![id] = NoReq]
  /\ llm' = [llm EXCEPT ![id] = AnalyzeNoLlm]
  /\ resp' = [resp EXCEPT ![id] = AnalyzeNoResp]
  /\ UNCHANGED <<local, sb>>

\* a pending call of the narrative service settles
AnalyzeSettles(id) ==
  \/ \E outcome \in AnalyzeOutcomes : AnalyzeReturn(id, outcome)
  \/ \E outcome \in AnalyzeOutcomes : AnalyzeRepairReturn(id, outcome)

NextAnalyze ==
  \E id \in SeqReqs :
    \/ pc[id] = "idle"
         /\ \E build \in Builds, body \in AnalyzeBodies : AnalyzeReceive(id, build, body)
    \/ pc[id] = "analysing" /\ \E outcome \in AnalyzeOutcomes : AnalyzeReturn(id, outcome)
    \/ pc[id] = "repairing" /\ \E outcome \in AnalyzeOutcomes : AnalyzeRepairReturn(id, outcome)
    \/ AnalyzeClose(id)

\* requests to /analyze served one at a time; a promise returned by the
\* client of the narrative service always settles (it resolves, or rejects
\* on an error or on the client's timeout)
SpecAnalyze ==
  InitAnalyze /\ [][NextAnalyze]_vars /\ \A id \in SeqReqs : WF_vars(AnalyzeSettles(id))

(***************************************************************************)
(* summarizeBlock called on its own with arbitrary rows.                   *)
(***************************************************************************)
InitSB ==
  /\ HandlersIdle
  /\ sb \in { [phase |-> "input", rows |-> rs, isPercent |-> p, out |-> ZeroBlock] :
                rs \in SbRowSeqs, p \in BOOLEAN }

SbApply ==
  /\ sb.phase = "input"
  /\ sb' = [sb EXCEPT !.phase = "done",
                      !.out = summarizeBlock(sb.rows, "meta", "real", sb.isPercent)]
  /\ UNCHANGED <<pc, req, local, llm, resp>>

NextSB == SbApply

SpecSB == InitSB /\ [][NextSB]_vars

(***************************************************************************)
(* Vocabulary of the properties, stated from the request and the response  *)
(* and not from the handler's intermediate values.                         *)
(***************************************************************************)
Done(id) == pc[id] = "done"
Answered200(id) == Done(id) /\ resp[id].status = 200
Items(id) == req[id].body.rows.items

\* the twelve calendar codes, January to December
CalendarCodes ==
  << <<"J", "A", "N">>, <<"F", "E", "V">>, <<"M", "A", "R">>, <<"A", "B", "R">>,
     <<"M", "A", "I">>, <<"J", "U", "N">>, <<"J", "U", "L">>, <<"A", "G", "O">>,
     <<"S", "E", "T">>, <<"O", "U", "T">>, <<"N", "O", "V">>, <<"D", "E", "Z">> >>

BlockFields == {"meta", "real", "perc"}

\* the request carries a year filter
HasYearFilter(body) == body.ano.t = "number" /\ body.ano.num # Zero

\* the year of a row: its own, else the request's, else the clock's
RowYear(r, body, now) ==
  IF r.ano # Undefined THEN r.ano ELSE IF body.ano # Undefined THEN body.ano ELSE JInt(now)

\* the subsequence of s at the indices in idx, in increasing order
SubsequenceAt(s, idx) ==
  [k \in 1..Cardinality(idx) |->
     s[CHOOSE j \in idx : Cardinality({x \in idx : x <= j}) = k]]

\* the violations of the schema by a body, as (top-level field, row, row field)
BadString(v) == ~(v.t = "string" /\ v.str # <<>>)
BadOptionalInt(v) == v # Undefined /\ ~(v.t = "number" /\ v.num.k = "fin" /\ v.num.d = 1)
BadOptionalNumber(v) == v # Undefined /\ ~(v.t = "number" /\ v.num.k # "nan")
BadAlvoPct(v) ==
  v # Undefined /\ ~(v.t = "number" /\ v.num.k = "fin"
                     /\ v.num.d <= 10 * v.num.n /\ v.num.n <= v.num.d)

RowViolations(r, i) ==
  {<<"rows", i, f>> : f \in {g \in {"obra", "mes"} : BadString(r[g])}}
  \cup {<<"rows", i, f>> : f \in {g \in {"ano"} : BadOptionalInt(r[g])}}
  \cup {<<"rows", i, f>> :
          f \in {g \in RowKeys \ {"obra", "mes", "ano"} : BadOptionalNumber(r[g])}}

Violations(body) ==
  IF body.t # "object" THEN {<<"", 0, "">>}
  ELSE {<<f, 0, "">> : f \in {g \in {"ano"} : BadOptionalInt(body[g])}}
       \cup {<<f, 0, "">> : f \in {g \in {"obra"} : body[g].t \notin {"undefined", "string"}}}
       \cup {<<f, 0, "">> : f \in {g \in {"alvoPct"} : BadAlvoPct(body[g])}}
       \cup (IF body.rows.t # "array" THEN {<<"rows", 0, "">>}
             ELSE UNION {RowViolations(body.rows.items[i], i - 1) :
                           i \in 1..Len(body.rows.items)})

ViolationsUnder(body, top) == {v \in Violations(body) : v[1] = top}

\* the body of a request with only the rows at the indices in idx
WithRows(body, idx) ==
  [body EXCEPT !.rows = Array(SubsequenceAt(body.rows.items, idx))]

(***************************************************************************)
(* C1: with a year filter, a row of another year contributes to no month   *)
(* block and to no YTD block: the response is the one the request would    *)
(* get with every such row removed.                                        *)
(***************************************************************************)
C1_YearFilterRestrictsYtdAndMonths ==
  \A id \in Reqs :
    (Answered200(id) /\ HasYearFilter(req[id].body)) =>
      LET body == req[id].body
          sameYear == {j \in 1..Len(Items(id)) :
                         RowYear(Items(id)[j], body, req[id].now) = body.ano}
          alone == Aggregate(WithRows(body, sameYear), req[id].now)
      IN  resp[id].meses = alone.meses /\ resp[id].ytd = alone.ytd

(***************************************************************************)
(* C2: whatever the narrative call does (resolve with JSON, resolve with   *)
(* text that does not parse, throw), a request that passed validation is   *)
(* answered 200 with ok:true and the ytd and meses computed before the     *)
(* call; when the call threw or its text does not parse, analise is {}.    *)
(***************************************************************************)
NarrativeFailed(outcome) ==
  outcome.threw \/ JsonParse(StripFences(outcome.text)).threw

C2_NarrativeOutcomeNeverAbortsResponse ==
  \A id \in Reqs :
    (Done(id) /\ Violations(req[id].body) = {}) =>
      LET before == Aggregate(SafeParse(req[id].body).data, req[id].now)
      IN  /\ llm[id].returned
          /\ resp[id].status = 200
          /\ resp[id].ok
          /\ resp[id].ytd = before.ytd
          /\ resp[id].meses = before.meses
          /\ NarrativeFailed(llm[id].outcome) => resp[id].analise = EmptyObject

C2_Witness ==
  \E id \in Reqs :
    /\ Done(id)
    /\ llm[id].returned
    /\ llm[id].outcome.threw
    /\ resp[id].status = 200
    /\ resp[id].analise = EmptyObject
    /\ resp[id].ytd.prazo_pedido.meta # Zero

(***************************************************************************)
(* C3: a body that violates the schema is answered 400 with ok:false and   *)
(* an error that has an entry for every violated field of the body, with   *)
(* one message per violation under it and none dropped after the first;    *)
(* nothing is aggregated and the narrative service is not called.          *)
(***************************************************************************)
TopLevelFields == {"ano", "obra", "alvoPct", "rows"}

RowInBucket(r, body, now, m) ==
  /\ body.obra \in {Undefined, JStr(<<>>), JStr(Todas)} \/ r.obra = body.obra
  /\ normalizeMes(r.mes) = m
  /\ HasYearFilter(body) => RowYear(r, body, now) = body.ano

C4_TwelveMonthsInCalendarOrder ==
  \A id \in Reqs :
    Answered200(id) =>
      /\ Len(resp[id].meses) = 12
      /\ \A i \in 1..12 :
           /\ resp[id].meses[i].mes = CalendarCodes[i]
           /\ (\A j \in 1..Len(Items(id)) :
                 ~RowInBucket(Items(id)[j], req[id].body, req[id].now, CalendarCodes[i]))
              => \A c \in Categories : resp[id].meses[i][c] = ZeroBlock

C4_Witness ==
  \E id \in Reqs :
    /\ Answered200(id)
    /\ Len(Items(id)) = 2
    /\ resp[id].meses[1].prazo_pedido.meta # Zero
    /\ resp[id].meses[2].prazo_pedido.meta # Zero
    /\ \A i \in 3..12 : \A c \in Categories : resp[id].meses[i][c] = ZeroBlock

(***************************************************************************)
(* C5: the first month record has an empty delta for all four categories;  *)
(* every later record i has, for every category, a delta with exactly the  *)
(* fields meta, real and perc, each the value of month i minus the value   *)
(* of month i-1.                                                           *)
(***************************************************************************)
C5_DeltaIsDifferenceToPreviousMonth ==
  \A id \in Reqs :
    Answered200(id) =>
      LET ms == resp[id].meses
      IN  /\ \A c \in Categories : DOMAIN ms[1].delta[c] = {}
          /\ \A i \in 2..Len(ms) : \A c \in Categories :
               /\ DOMAIN ms[i].delta[c] = BlockFields
               /\ \A f \in BlockFields :
                    ms[i].delta[c][f] = NumSub(ms[i][c][f], ms[i - 1][c][f])

C5_Witness ==
  \E id \in Reqs :
    /\ Answered200(id)
    /\ resp[id].meses[2].delta.prazo_pedido.meta = Int2Num(90)
    /\ resp[id].meses[2].delta.pontualidade.perc # Zero
    /\ resp[id].meses[3].delta.prazo_pedido.meta = Int2Num(-100)

(***************************************************************************)
(* C6, as claimed: with obra "Todas" or absent the filter keeps every row  *)
(* in input order; with any other requested label it keeps exactly the     *)
(* rows whose obra equals the label, in input order, and the month blocks  *)
(* and YTD blocks are those of the kept rows alone.                        *)
(***************************************************************************)
\* the indices of the rows a request for the entity value obra keeps
KeptBy(items, obra, allEntities) ==
  IF obra \in allEntities THEN 1..Len(items)
  ELSE {j \in 1..Len(items) : items[j].obra = obra}

FilterKeeps(id, allEntities) ==
  LET body == req[id].body
      kept == KeptBy(Items(id), body.obra, allEntities)
      alone == Aggregate(WithRows(body, kept), req[id].now)
  IN  /\ Len(local[id].filtered) = Cardinality(kept)
      /\ \A k \in 1..Len(local[id].filtered) :
           LET j == CHOOSE x \in kept : Cardinality({y \in kept : y <= x}) = k
           IN  /\ local[id].filtered[k].obra = Items(id)[j].obra
               /\ \A key \in RowKeys \ {"mes", "ano"} :
                    local[id].filtered[k][key] = Items(id)[j][key]
               /\ local[id].filtered[k].mes.str = normalizeMes(Items(id)[j].mes)
      /\ resp[id].ytd = Blocks(SubsequenceAt(Items(id), kept))
      /\ resp[id].meses = alone.meses

C6_FilterTodasOrAbsentKeepsAll ==
  \A id \in Reqs :
    Answered200(id) => FilterKeeps(id, {Undefined, JStr(Todas)})

(***************************************************************************)
(* C6, amended: the filter keeps every row, in input order, when obra is   *)
(* "Todas", absent or the empty string; with any other label it keeps      *)
(* exactly the rows whose obra equals the label, in input order, and the   *)
(* month blocks and YTD blocks are those of the kept rows alone.           *)
(***************************************************************************)
C6_FilterKeepsAllOrExactLabel ==
  \A id \in Reqs :
    Answered200(id) => FilterKeeps(id, {Undefined, JStr(Todas), JStr(<<>>)})

C6_Witness ==
  \E id \in Reqs :
    /\ Answered200(id)
    /\ req[id].body.obra = ObraA
    /\ Len(Items(id)) = 2
    /\ Items(id)[1].obra = ObraB
    /\ Len(local[id].filtered) = 1
    /\ resp[id].obra = <<"A">>
    /\ resp[id].ytd.prazo_pedido.meta # Zero

(***************************************************************************)
(* C10: a row whose normalized month is none of the twelve codes is        *)
(* accepted by validation, contributes to none of the twelve month blocks  *)
(* (the month series is the one of the request without the row) and, when  *)
(* it passes the entity filter, contributes to the YTD blocks: its values  *)
(* are added to the summed blocks and it counts in the averaged ones.      *)
(***************************************************************************)
IsCalendarCode(m) == \E i \in 1..Len(CalendarCodes) : CalendarCodes[i] = m

PassesEntityFilter(r, body) ==
  body.obra \in {Undefined, JStr(<<>>), JStr(Todas)} \/ r.obra = body.obra

C10_UnknownMonthOnlyInYtd ==
  \A id \in Reqs :
    (Done(id) /\ Violations(req[id].body) = {}) =>
      \A j \in 1..Len(Items(id)) :
        ~IsCalendarCode(normalizeMes(Items(id)[j].mes)) =>
          LET body == req[id].body
              r == Items(id)[j]
              without == Aggregate(WithRows(body, (1..Len(Items(id))) \ {j}),
                                   req[id].now)
              others == Len(without.filtered)
          IN  /\ resp[id].status = 200
              /\ resp[id].meses = without.meses
              /\ PassesEntityFilter(r, body) =>
                   /\ \A c \in {"prazo_pedido", "prazo_entrega"} :
                        /\ resp[id].ytd[c].meta =
                             NumAdd(without.ytd[c].meta,
                                    ToNumber(CoalesceZero(r[c \o "_meta"])))
                        /\ resp[id].ytd[c].real =
                             NumAdd(without.ytd[c].real,
                                    ToNumber(CoalesceZero(r[c \o "_real"])))
                   /\ \A c \in {"pontualidade", "negociacao"} :
                        NumMul(resp[id].ytd[c].meta, Int2Num(others + 1)) =
                          NumAdd(NumMul(without.ytd[c].meta, Int2Num(others)),
                                 ToNumber(CoalesceZero(r[c \o "_meta"])))

C10_Witness ==
  \E id \in Reqs :
    /\ Answered200(id)
    /\ Len(Items(id)) = 2
    /\ normalizeMes(Items(id)[1].mes) = <<"X", "Y", "Z">>
    /\ normalizeMes(Items(id)[2].mes) = <<>>
    /\ \A i \in 1..12 : \A c \in Categories : resp[id].meses[i][c] = ZeroBlock
    /\ resp[id].ytd.prazo_pedido.meta = Int2Num(110)

(***************************************************************************)
(* C11: with several requests in flight at once, interleaved at the await  *)
(* of the narrative call, every request holds and is answered with the    *)
(* ytd and meses it would get alone (those computed from its own body and  *)
(* clock reading, whatever the other requests are), and a handler that is  *)
(* not running holds no aggregation and no response of an earlier request. *)
(***************************************************************************)
InFlight(id) == pc[id] = "awaiting"

\* the aggregation a request computes when it is the only one
Alone(id) == Aggregate(SafeParse(req[id].body).data, req[id].now)

C11_ConcurrentRequestsAreIsolated ==
  \A id \in Reqs :
    /\ InFlight(id) =>
         /\ local[id].set
         /\ local[id].ytd = Alone(id).ytd
         /\ local[id].meses = Alone(id).meses
    /\ Answered200(id) =>
         /\ resp[id].ytd = Alone(id).ytd
         /\ resp[id].meses = Alone(id).meses
    /\ pc[id] = "idle" =>
         /\ local[id] = NoLocal
         /\ resp[id] = NoResp

\* one request has been answered while another, with a different
\* aggregation, is suspended at its await
C11_Witness ==
  \E i, j \in Reqs :
    /\ i # j
    /\ Answered200(i)
    /\ InFlight(j)
    /\ local[i].set
    /\ local[j].ytd # resp[i].ytd
    /\ local[j].meses # resp[i].meses
    /\ resp[i].ytd.prazo_pedido.meta = Int2Num(100)
    /\ local[j].ytd.prazo_pedido.meta = Int2Num(20)

(***************************************************************************)
(* Vocabulary of the properties of POST /analyze.                          *)
(***************************************************************************)
\* the request lacks a parameter its server requires
MissingParameter(id) ==
  \E f \in Required(req[id].build) : req[id].body[f] = Undefined

\* the analysis call has resolved with an output that parses
FirstParses(id) ==
  /\ Len(llm[id].outcomes) >= 1
  /\ ~llm[id].outcomes[1].threw
  /\ ~JsonParse(RawOf(req[id].build, llm[id].outcomes[1])).threw

\* the repair call has resolved with an output that parses
RepairParses(id) ==
  /\ Len(llm[id].outcomes) = 2
  /\ ~llm[id].outcomes[2].threw
  /\ ~JsonParse(FixedOf(llm[id].outcomes[2])).threw

\* the calls made so far: the analysis call, then at most one repair call,
\* different from it and made only once the first output failed to parse
CallsAreBounded(id) ==
  LET l == llm[id]
  IN  /\ l.calls = Len(l.log)
      /\ l.calls <= 2
      /\ l.calls >= 1 => l.log[1].kind = AnalysisCall
      /\ l.calls = 2 =>
           /\ l.log[2].kind = RepairCall
           /\ l.log[2] # l.log[1]
           /\ Len(l.outcomes) >= 1
           /\ ~l.outcomes[1].threw
           /\ ~FirstParses(id)
           /\ l.log[2].input = RawOf(req[id].build, l.outcomes[1])

\* one response, sent when the handler finishes and not before
OneResponse(id) ==
  /\ resp[id].sent <= 1
  /\ resp[id].sent = 1 <=> pc[id] = "done"

\* what the response of a finished request is
ResponseIsClassified(id) ==
  LET l == llm[id]
      r == resp[id]
  IN  pc[id] = "done" =>
        /\ MissingParameter(id) => r.status = 400 /\ ~r.ok /\ l.calls = 0
        /\ FirstParses(id) =>
             /\ r.status = 200 /\ r.ok /\ l.calls = 1
             /\ r.data = JsonParse(RawOf(req[id].build, l.outcomes[1])).value
        /\ RepairParses(id) =>
             /\ r.status = 200 /\ r.ok /\ l.calls = 2
             /\ r.data = JsonParse(FixedOf(l.outcomes[2])).value
        /\ (Len(l.outcomes) >= 1 /\ l.outcomes[1].threw) =>
             r.status = 500 /\ ~r.ok /\ l.calls = 1
        /\ (Len(l.outcomes) = 2 /\ ~RepairParses(id)) => r.status = 500 /\ ~r.ok
        /\ r.status = 200 => FirstParses(id) \/ RepairParses(id)

(***************************************************************************)
(* C12: a request to /analyze makes at most two calls of the narrative     *)
(* service (the analysis call, then at most one repair call, different     *)
(* from it and made only when the first output does not parse); once a     *)
(* call is pending the request always comes to its response, and it sends  *)
(* exactly one: ok:true with the parsed data when the first or the         *)
(* repaired output parses, a 500 when the first call fails or the repaired *)
(* output does not parse, a 400 with no call when a required parameter is  *)
(* missing.                                                                *)
(***************************************************************************)
C12_RepairIsBoundedRetry ==
  /\ [](\A id \in Reqs :
          CallsAreBounded(id) /\ OneResponse(id) /\ ResponseIsClassified(id))
  /\ \A id \in Reqs : (pc[id] \in {"analysing", "repairing"}) ~> (pc[id] = "done")

\* the first output did not parse, the repair call was made with it and its
\* output parsed: two calls, one response with the repaired data
C12_Witness ==
  \E id \in Reqs :
    /\ pc[id] = "done"
    /\ llm[id].calls = 2
    /\ llm[id].log[2] = [kind |-> RepairCall, input |-> <<"Segue a analise:", JsonText>>]
    /\ llm[id].outcomes[2].text = <<"<fence>json", JsonText, "<fence>">>
    /\ resp[id] = [status |-> 200, sent |-> 1, ok |-> TRUE, data |-> JsonText]

(***************************************************************************)
(* Vocabulary of the properties of summarizeBlock.                         *)
(***************************************************************************)
SbDone == sb.phase = "done"

\* the number a field value stands for; none (NaN) when it is not numeric
FieldNumber(v) ==
  CASE v.t = "number" -> v.num
    [] v.t = "string" -> StringToNumber(v.str)
    [] v.t \in {"undefined", "null"} -> Zero
    [] OTHER -> NaN

\* the sum of the values at key of rows, the NaN ones counting as 0
RECURSIVE SumSkippingNaN(_, _)
SumSkippingNaN(rows, key) ==
  IF rows = <<>> THEN Zero
  ELSE LET last == FieldNumber(rows[Len(rows)][key])
       IN  NumAdd(SumSkippingNaN(SubSeq(rows, 1, Len(rows) - 1), key),
                  IF last.k = "nan" THEN Zero ELSE last)

(***************************************************************************)
(* C7: in both modes and for every row set, perc is 0 when the aggregated  *)
(* meta is 0 and (real / meta) * 100 otherwise, and perc is neither NaN    *)
(* nor infinite.                                                           *)
(***************************************************************************)
C7_PercDefinedAndFinite ==
  SbDone =>
    /\ sb.out.perc = IF sb.out.meta = Zero THEN Zero
                     ELSE NumMul(NumDiv(sb.out.real, sb.out.meta), Int2Num(100))
    /\ sb.out.perc.k = "fin"

(***************************************************************************)
(* C8: in percent mode meta and real are the sum of the per-row values     *)
(* that are not NaN divided by the number of rows, every row counting in   *)
(* the divisor, also one whose value is NaN or absent; with no rows both   *)
(* are 0.                                                                  *)
(***************************************************************************)
C8_PercentModeDividesByRowCount ==
  (SbDone /\ sb.isPercent) =>
    IF Len(sb.rows) = 0 THEN sb.out.meta = Zero /\ sb.out.real = Zero
    ELSE /\ sb.out.meta = NumDiv(SumSkippingNaN(sb.rows, "meta"), Int2Num(Len(sb.rows)))
         /\ sb.out.real = NumDiv(SumSkippingNaN(sb.rows, "real"), Int2Num(Len(sb.rows)))

C8_Witness ==
  /\ SbDone
  /\ sb.isPercent
  /\ Len(sb.rows) = 3
  /\ sb.rows[1].meta = JInt(10) /\ sb.rows[2].meta = JNum(NaN) /\ sb.rows[3].meta = JInt(20)
  /\ sb.out = [meta |-> Int2Num(10), real |-> Int2Num(5), perc |-> Int2Num(50)]

(***************************************************************************)
(* C9: in summed mode meta is the sum over all rows of the target field    *)
(* and real the sum of the actual field, an absent, non-numeric or NaN     *)
(* field counting as 0; the call returns a block for every such input.     *)
(***************************************************************************)
C9_SummedModeAddsCoercedFields ==
  (SbDone /\ ~sb.isPercent) =>
    /\ sb.out.meta = SumSkippingNaN(sb.rows, "meta")
    /\ sb.out.real = SumSkippingNaN(sb.rows, "real")
    /\ DOMAIN sb.out = BlockFields

C9_Witness ==
  /\ SbDone
  /\ ~sb.isPercent
  /\ Len(sb.rows) = 3
  /\ sb.rows[1].meta = JStr(<<"a", "b", "c">>)
  /\ sb.rows[2].real = JNum(NaN)
  /\ sb.rows[3].meta = Undefined
  /\ sb.out.meta = Int2Num(-10)
  /\ sb.out.real = Int2Num(8)

=============================================================================
